---- MODULE Spec2Model ----
(***************************************************************************)
(* Model of the simple call server, src/src/server.js: the presence map    *)
(* `users`, the session map `activeCalls`, the socket handlers             *)
(* (authenticate, disconnect) and the HTTP handlers (initiate-simple,      *)
(* accept, reject, end).  Every handler is one synchronous JavaScript      *)
(* callback, hence one atomic action.                                      *)
(*                                                                         *)
(* Participant ids, connection handles (socket.id) and call ids (uuidv4)   *)
(* are three disjoint namespaces, modelled as tagged pairs.  A socket.io   *)
(* emit `io.to(x).emit(e, ..)` is recorded with its address x; it reaches  *)
(* a connection only when x is that connection's socket.id.                *)
(* The opaque session fields orderTrackingId, callerName, callType and     *)
(* createdAt are never read by a handler and are left out.                 *)
(*                                                                         *)
(* The token-issuing call server, src/server/server.js, is a separate      *)
(* program with its own maps (activeCalls, userSockets) and handlers; it   *)
(* is modelled by the Token* definitions and the specification SpecToken.  *)
(* Its session ids and channel names are built from Date.now(), modelled   *)
(* by the clock `now`.  The Agora tokens are opaque and left out.          *)
(***************************************************************************)
EXTENDS Integers, Sequences, FiniteSets, TLC

MaxUsers == 2
MaxSockets == 2
MaxCalls == 2
MaxClock == 2
MaxOrders == 2

UserIds == {<<"user", i>> : i \in 1..MaxUsers}
SocketIds == {<<"socket", i>> : i \in 1..MaxSockets}
CallIds == {<<"call", i>> : i \in 1..MaxCalls}

\* JavaScript `undefined`: a missing body field, a failed Map.get.
Undefined == <<"undefined", 0>>

VARIABLES
  users,        \* Map userId -> socketId, as the sequence of its entries in insertion order
  activeCalls,  \* Map callId -> callSession
  connected,    \* socket ids of the live connections
  nextSocket,   \* index of the next connection the transport will open
  nextCall,     \* index of the next id uuidv4() will return
  emitted,      \* the emits of the last handler, in order
  last,         \* the last request or socket event and its response status
  succeeded,    \* history: call ids on which accept / reject / end returned 200
  terminalSeen, \* history: per call id, terminal events emitted to the caller's connection
  replaced,     \* history: <<userId, socketId>> entries overwritten by a later authenticate,
                \* kept while socketId is still connected
  tokenCalls,   \* src/server/server.js: Map activeCalls, callId -> callSession
  userSockets,  \* src/server/server.js: Map userId -> socketId, entries in insertion order
  now           \* src/server/server.js: the value Date.now() returns

\* The state of the simple call server and the state of the token-issuing server.
simpleVars == <<users, activeCalls, nextCall, succeeded, terminalSeen, replaced>>
tokenVars == <<tokenCalls, userSockets, now>>

vars == <<users, activeCalls, connected, nextSocket, nextCall, emitted, last,
          succeeded, terminalSeen, replaced, tokenCalls, userSockets, now>>

----------------------------------------------------------------------------
(* The Map `users` *)

\* users.has(k)
UsersHas(m, k) == \E i \in 1..Len(m) : m[i].userId = k

\* A mutation of UsersGet: the lookup answers the participant id, not its socket id.
UsersGetKey(m, k) == IF UsersHas(m, k) THEN k ELSE Undefined

\* users.get(k)
UsersGet(m, k) ==
  IF UsersHas(m, k)
  THEN m[CHOOSE i \in 1..Len(m) : m[i].userId = k].socketId
  ELSE Undefined

\* Map.set keeps the position of an existing key and appends a new one.
UsersSet(m, k, v) ==
  IF UsersHas(m, k)
  THEN [i \in 1..Len(m) |-> IF m[i].userId = k
                             THEN [userId |-> k, socketId |-> v]
                             ELSE m[i]]
  ELSE Append(m, [userId |-> k, socketId |-> v])

\* users.delete(k)
UsersDelete(m, k) == SelectSeq(m, LAMBDA e : e.userId # k)

\* A mutation of FirstMatch: the scan stops at the first entry, whatever its socket.
FirstMatchAnySocket(m, c) == IF Len(m) > 0 THEN 1 ELSE 0

\* for (const [userId, socketId] of users.entries()) if (socketId === socket.id) {..; break}
\* The index of the first entry registered on connection c, 0 when there is none.
FirstMatch(m, c) ==
  IF \E i \in 1..Len(m) : m[i].socketId = c
  THEN CHOOSE i \in 1..Len(m) :
         /\ m[i].socketId = c
         /\ \A j \in 1..(i - 1) : m[j].socketId # c
  ELSE 0

----------------------------------------------------------------------------
(* The Map `activeCalls` and the emits *)

Emit(to, event, callId) == [to |-> to, event |-> event, callId |-> callId]

References(call, userId) == call.callerId = userId \/ call.receiverId = userId

\* A mutation of IsBusy: the busy check only looks at callers.
IsBusyCallerOnly(calls, userId) ==
  \E id \in DOMAIN calls :
    /\ calls[id].status # "ended"
    /\ calls[id].status # "rejected"
    /\ calls[id].callerId = userId

\* [...activeCalls.values()].some(call => status not ended/rejected and references userId)
IsBusy(calls, userId) ==
  \E id \in DOMAIN calls :
    /\ calls[id].status # "ended"
    /\ calls[id].status # "rejected"
    /\ References(calls[id], userId)

\* A mutation of CallsDelete: the record is kept.
CallsDeleteNothing(calls, id) == calls

\* activeCalls.delete(callId)
CallsDelete(calls, id) == [k \in DOMAIN calls \ {id} |-> calls[k]]

\* activeCalls.set(callId, callSession)
CallsSet(calls, id, session) ==
  [k \in DOMAIN calls \cup {id} |-> IF k = id THEN session ELSE calls[k]]

\* The call ids in insertion order: uuidv4 ids are indexed by creation.
CallOrder(calls) ==
  LET n == Cardinality(DOMAIN calls)
      rank(id) == Cardinality({k \in DOMAIN calls : k[2] < id[2]}) + 1
  IN [i \in 1..n |-> CHOOSE id \in DOMAIN calls : rank(id) = i]

\* activeCalls.forEach of the disconnect handler: the emits it makes for userId.
RECURSIVE CascadeEmits(_, _, _)
CascadeEmits(calls, order, userId) ==
  IF order = <<>> THEN <<>>
  ELSE LET id == Head(order)
           call == calls[id]
           rest == CascadeEmits(calls, Tail(order), userId)
       IN IF References(call, userId)
          THEN <<Emit(call.callerId, "call_ended", id),
                 Emit(call.receiverId, "call_ended", id)>> \o rest
          ELSE rest

CascadeKeep(calls, userId) ==
  [k \in {id \in DOMAIN calls : ~References(calls[id], userId)} |-> calls[k]]

\* The number of terminal events for call id among es that are addressed to `to`.
TerminalCount(es, to, id) ==
  Cardinality({i \in 1..Len(es) :
                 /\ es[i].to = to
                 /\ es[i].callId = id
                 /\ es[i].event \in {"call_rejected", "call_ended"}})

\* What is kept of the last handler run: the handler, the call id it named or
\* created, the HTTP status of its response (0 for a socket event); for a
\* disconnect, the participants whose overwritten entry pointed to that
\* connection; for an initiate handled directly after an initiate that created a
\* session with the same callerId and another receiverId, the id of that session.
Response(op, callId, status) ==
  [op |-> op, callId |-> callId, status |-> status, stale |-> {}, pairOf |-> Undefined]

\* The response of an initiate with body {callerId, receiverId}.
InitiateResponse(callId, status, callerId, receiverId) ==
  [Response("initiate", callId, status) EXCEPT
     !.pairOf = IF /\ last.op = "initiate"
                   /\ last.callId \in DOMAIN activeCalls
                   /\ activeCalls[last.callId].callerId = callerId
                   /\ activeCalls[last.callId].receiverId # receiverId
                THEN last.callId
                ELSE Undefined]

----------------------------------------------------------------------------
Init ==
  /\ users = <<>>
  /\ activeCalls = [k \in {} |-> 0]
  /\ connected = {}
  /\ nextSocket = 1
  /\ nextCall = 1
  /\ emitted = <<>>
  /\ last = Response("start", Undefined, 0)
  /\ succeeded = [accept |-> {}, reject |-> {}, end |-> {}]
  /\ terminalSeen = [k \in CallIds |-> 0]
  /\ replaced = {}
  /\ tokenCalls = [k \in {} |-> 0]
  /\ userSockets = <<>>
  /\ now = 1

\* io.on("connection"): the transport opens a connection with a fresh socket.id
Connect ==
  /\ nextSocket <= MaxSockets
  /\ connected' = connected \cup {<<"socket", nextSocket>>}
  /\ nextSocket' = nextSocket + 1
  /\ emitted' = <<>>
  /\ last' = Response("connection", Undefined, 0)
  /\ UNCHANGED <<users, activeCalls, nextCall, succeeded, terminalSeen, replaced>>

\* socket.on("authenticate") on connection c with argument userId
AuthenticateOn(c, userId) ==
  /\ c \in connected
  /\ users' = UsersSet(users, userId, c)
  /\ replaced' = (IF UsersHas(users, userId) /\ UsersGet(users, userId) \in connected \ {c}
                  THEN replaced \cup {<<userId, UsersGet(users, userId)>>}
                  ELSE replaced) \ {<<userId, c>>}
  /\ emitted' = <<>>
  /\ last' = Response("authenticate", Undefined, 0)
  /\ UNCHANGED <<activeCalls, connected, nextSocket, nextCall, succeeded, terminalSeen>>

Authenticate == \E c \in SocketIds, userId \in UserIds : AuthenticateOn(c, userId)

\* socket.on("disconnect") of connection c
DisconnectOf(c) ==
  LET i == FirstMatch(users, c) IN
  /\ c \in connected
  /\ connected' = connected \ {c}
  /\ last' = [Response("disconnect", Undefined, 0) EXCEPT
                !.stale = {u \in UserIds : <<u, c>> \in replaced}]
  /\ replaced' = {p \in replaced : p[2] # c}
  /\ IF i = 0
     THEN /\ emitted' = <<>>
          /\ UNCHANGED <<users, activeCalls, terminalSeen>>
     ELSE LET userId == users[i].userId
              es == CascadeEmits(activeCalls, CallOrder(activeCalls), userId)
          IN /\ users' = UsersDelete(users, userId)
             /\ emitted' = es
             /\ activeCalls' = CascadeKeep(activeCalls, userId)
             /\ terminalSeen' =
                  [id \in CallIds |->
                     IF id \in DOMAIN activeCalls
                     THEN terminalSeen[id]
                          + TerminalCount(es, UsersGet(users, activeCalls[id].callerId), id)
                     ELSE terminalSeen[id]]
  /\ UNCHANGED <<nextSocket, nextCall, succeeded>>

Disconnect == \E c \in SocketIds : DisconnectOf(c)

\* A mutation of InitiateStatus: the caller's busy check is left out.
InitiateStatusNoCallerCheck(callerId, receiverId) ==
  IF callerId = Undefined \/ receiverId = Undefined THEN 400
  ELSE IF IsBusy(activeCalls, receiverId) THEN 409
  ELSE IF UsersGet(users, receiverId) # Undefined THEN 200
  ELSE 404

\* The status app.post("/api/calls/initiate-simple") answers with.
InitiateStatus(callerId, receiverId) ==
  IF callerId = Undefined \/ receiverId = Undefined THEN 400
  ELSE IF IsBusy(activeCalls, callerId) THEN 409
  ELSE IF IsBusy(activeCalls, receiverId) THEN 409
  ELSE IF UsersGet(users, receiverId) # Undefined THEN 200
  ELSE 404

\* app.post("/api/calls/initiate-simple") with body {callerId, receiverId}
InitiateReq(callerId, receiverId) ==
  LET callId == <<"call", nextCall>>
      callSession == [id |-> callId, callerId |-> callerId,
                      receiverId |-> receiverId, status |-> "ringing"]
      receiverSocketId == UsersGet(users, receiverId)
      status == InitiateStatus(callerId, receiverId)
  IN
  IF status \in {400, 409}
  THEN /\ last' = InitiateResponse(Undefined, status, callerId, receiverId)
       /\ emitted' = <<>>
       /\ UNCHANGED <<users, activeCalls, connected, nextSocket, nextCall,
                      succeeded, terminalSeen, replaced>>
  ELSE /\ nextCall <= MaxCalls
       /\ activeCalls' = CallsSet(activeCalls, callId, callSession)
       /\ nextCall' = nextCall + 1
       /\ emitted' = IF receiverSocketId # Undefined
                     THEN <<Emit(receiverSocketId, "incoming_call", callId)>>
                     ELSE <<>>
       /\ last' = InitiateResponse(callId, status, callerId, receiverId)
       /\ UNCHANGED <<users, connected, nextSocket, succeeded, terminalSeen, replaced>>

Initiate ==
  \E callerId \in UserIds \cup {Undefined}, receiverId \in UserIds \cup {Undefined} :
    InitiateReq(callerId, receiverId)

\* A mutation of ReceiverStatus: the acting user is not compared with the receiver.
ReceiverStatusAnyActor(callId, userId) ==
  IF callId \notin DOMAIN activeCalls THEN 404 ELSE 200

\* The status accept and reject answer with.
ReceiverStatus(callId, userId) ==
  IF callId \notin DOMAIN activeCalls THEN 404
  ELSE IF activeCalls[callId].receiverId # userId THEN 403
  ELSE 200

\* app.post("/api/calls/:callId/accept") with body {userId}
AcceptReq(callId, userId) ==
  LET status == ReceiverStatus(callId, userId) IN
  IF status # 200
  THEN /\ last' = Response("accept", callId, status)
       /\ emitted' = <<>>
       /\ UNCHANGED <<users, activeCalls, connected, nextSocket, nextCall,
                      succeeded, terminalSeen, replaced>>
  ELSE LET callSession == [activeCalls[callId] EXCEPT !.status = "accepted"]
           callerSocketId == UsersGet(users, callSession.callerId)
       IN /\ activeCalls' = CallsSet(activeCalls, callId, callSession)
          /\ emitted' = IF callerSocketId # Undefined
                        THEN <<Emit(callerSocketId, "call_accepted", callId)>>
                        ELSE <<>>
          /\ last' = Response("accept", callId, 200)
          /\ succeeded' = [succeeded EXCEPT !.accept = @ \cup {callId}]
          /\ UNCHANGED <<users, connected, nextSocket, nextCall, terminalSeen, replaced>>

Accept == \E callId \in CallIds, userId \in UserIds \cup {Undefined} : AcceptReq(callId, userId)

\* app.post("/api/calls/:callId/reject") with body {userId}
RejectReq(callId, userId) ==
  LET status == ReceiverStatus(callId, userId) IN
  IF status # 200
  THEN /\ last' = Response("reject", callId, status)
       /\ emitted' = <<>>
       /\ UNCHANGED <<users, activeCalls, connected, nextSocket, nextCall,
                      succeeded, terminalSeen, replaced>>
  ELSE LET callSession == [activeCalls[callId] EXCEPT !.status = "rejected"]
           callerSocketId == UsersGet(users, callSession.callerId)
           es == IF callerSocketId # Undefined
                 THEN <<Emit(callerSocketId, "call_rejected", callId)>>
                 ELSE <<>>
       IN /\ activeCalls' = CallsDelete(CallsSet(activeCalls, callId, callSession), callId)
          /\ emitted' = es
          /\ last' = Response("reject", callId, 200)
          /\ succeeded' = [succeeded EXCEPT !.reject = @ \cup {callId}]
          /\ terminalSeen' = [terminalSeen EXCEPT
                                ![callId] = @ + TerminalCount(es, callerSocketId, callId)]
          /\ UNCHANGED <<users, connected, nextSocket, nextCall, replaced>>

Reject == \E callId \in CallIds, userId \in UserIds \cup {Undefined} : RejectReq(callId, userId)

\* app.post("/api/calls/:callId/end") with body {userId}; userId is only logged
EndReq(callId, userId) ==
  IF callId \notin DOMAIN activeCalls
  THEN /\ last' = Response("end", callId, 404)
       /\ emitted' = <<>>
       /\ UNCHANGED <<users, activeCalls, connected, nextSocket, nextCall,
                      succeeded, terminalSeen, replaced>>
  ELSE LET callSession == [activeCalls[callId] EXCEPT !.status = "ended"]
           callerSocketId == UsersGet(users, callSession.callerId)
           receiverSocketId == UsersGet(users, callSession.receiverId)
           es == (IF callerSocketId # Undefined
                  THEN <<Emit(callerSocketId, "call_ended", callId)>>
                  ELSE <<>>)
                 \o (IF receiverSocketId # Undefined
                     THEN <<Emit(receiverSocketId, "call_ended", callId)>>
                     ELSE <<>>)
       IN /\ activeCalls' = CallsDelete(CallsSet(activeCalls, callId, callSession), callId)
          /\ emitted' = es
          /\ last' = Response("end", callId, 200)
          /\ succeeded' = [succeeded EXCEPT !.end = @ \cup {callId}]
          /\ terminalSeen' = [terminalSeen EXCEPT
                                ![callId] = @ + TerminalCount(es, callerSocketId, callId)]
          /\ UNCHANGED <<users, connected, nextSocket, nextCall, replaced>>

End == \E callId \in CallIds, userId \in UserIds \cup {Undefined} : EndReq(callId, userId)

\* A mutation of Recipient: the chunk always goes to the receiver.
RecipientAlwaysReceiver(callSession, senderId) == callSession.receiverId

\* recipientId = callSession.callerId === data.senderId ? receiverId : callerId
Recipient(callSession, senderId) ==
  IF callSession.callerId = senderId
  THEN callSession.receiverId
  ELSE callSession.callerId

\* socket.on("audio_data") on connection c with data {callId, senderId, audioChunk}
AudioDataOn(c, callId, senderId) ==
  /\ c \in connected
  /\ last' = Response("audio_data", callId, 0)
  /\ emitted' =
       IF callId \notin DOMAIN activeCalls
       THEN <<>>
       ELSE LET recipientId == Recipient(activeCalls[callId], senderId)
                recipientSocketId == UsersGet(users, recipientId)
            IN IF recipientSocketId # Undefined
               THEN <<Emit(recipientSocketId, "audio_data", callId)>>
               ELSE <<>>
  /\ UNCHANGED <<users, activeCalls, connected, nextSocket, nextCall,
                 succeeded, terminalSeen, replaced>>

AudioData ==
  \E c \in SocketIds, callId \in CallIds, senderId \in UserIds \cup {Undefined} :
    AudioDataOn(c, callId, senderId)

Next ==
  \/ Connect /\ UNCHANGED tokenVars
  \/ Authenticate /\ UNCHANGED tokenVars
  \/ AudioData /\ UNCHANGED tokenVars
  \/ Disconnect /\ UNCHANGED tokenVars
  \/ Initiate /\ UNCHANGED tokenVars
  \/ Accept /\ UNCHANGED tokenVars
  \/ Reject /\ UNCHANGED tokenVars
  \/ End /\ UNCHANGED tokenVars

Spec == Init /\ [][Next]_vars

----------------------------------------------------------------------------
(* The token-issuing call server, src/server/server.js *)

OrderIds == 1..MaxOrders

\* `call_${Date.now()}`
TokenCallId(t) == <<"call", t>>

\* `call_${orderTrackingId}_${Date.now()}`
ChannelName(orderTrackingId, t) == <<"call", orderTrackingId, t>>

\* The ids a request can name: those the clock can have produced.
TokenCallIds == {TokenCallId(t) : t \in 1..MaxClock}

\* Date.now() moves on between two requests.
Tick ==
  /\ now < MaxClock
  /\ now' = now + 1
  /\ emitted' = <<>>
  /\ last' = Response("tick", Undefined, 0)
  /\ UNCHANGED <<tokenCalls, userSockets, connected, nextSocket>>

\* socket.on("authenticate") on connection c with argument userId
TokenAuthenticateOn(c, userId) ==
  /\ c \in connected
  /\ userSockets' = UsersSet(userSockets, userId, c)
  /\ emitted' = <<>>
  /\ last' = Response("authenticate", Undefined, 0)
  /\ UNCHANGED <<tokenCalls, now, connected, nextSocket>>

TokenAuthenticate ==
  \E c \in SocketIds, userId \in UserIds : TokenAuthenticateOn(c, userId)

\* socket.on("disconnect") of connection c
TokenDisconnectOf(c) ==
  LET i == FirstMatch(userSockets, c) IN
  /\ c \in connected
  /\ connected' = connected \ {c}
  /\ userSockets' = IF i = 0 THEN userSockets
                    ELSE UsersDelete(userSockets, userSockets[i].userId)
  /\ emitted' = <<>>
  /\ last' = Response("disconnect", Undefined, 0)
  /\ UNCHANGED <<tokenCalls, now, nextSocket>>

TokenDisconnect == \E c \in SocketIds : TokenDisconnectOf(c)

\* socket.on("call_status_update") with data {callId, status, targetUserId}
TokenStatusUpdateOn(c, callId, targetUserId) ==
  LET targetSocketId == UsersGet(userSockets, targetUserId) IN
  /\ c \in connected
  /\ emitted' = IF targetSocketId # Undefined
                THEN <<Emit(targetSocketId, "call_status_update", callId)>>
                ELSE <<>>
  /\ last' = Response("call_status_update", callId, 0)
  /\ UNCHANGED <<tokenCalls, userSockets, now, connected, nextSocket>>

TokenStatusUpdate ==
  \E c \in SocketIds, callId \in TokenCallIds, targetUserId \in UserIds :
    TokenStatusUpdateOn(c, callId, targetUserId)

\* app.post("/api/calls/initiate") with body {callerId, receiverId, orderTrackingId}
TokenInitiateReq(callerId, receiverId, orderTrackingId) ==
  LET callSession == [id |-> TokenCallId(now),
                      channelName |-> ChannelName(orderTrackingId, now),
                      callerId |-> callerId,
                      receiverId |-> receiverId,
                      orderTrackingId |-> orderTrackingId,
                      status |-> "initiated"]
      receiverSocketId == UsersGet(userSockets, receiverId)
  IN /\ tokenCalls' = CallsSet(tokenCalls, callSession.id, callSession)
     /\ emitted' = IF receiverSocketId # Undefined
                   THEN <<Emit(receiverSocketId, "incoming_call", callSession.id)>>
                   ELSE <<>>
     /\ last' = Response("initiate", callSession.id, 200)
     /\ UNCHANGED <<userSockets, now, connected, nextSocket>>

TokenInitiate ==
  \E callerId \in UserIds, receiverId \in UserIds, orderTrackingId \in OrderIds :
    TokenInitiateReq(callerId, receiverId, orderTrackingId)

\* app.post("/api/calls/:callId/accept") with body {userId}
TokenAcceptReq(callId, userId) ==
  IF callId \notin DOMAIN tokenCalls
  THEN /\ last' = Response("accept", callId, 404)
       /\ emitted' = <<>>
       /\ UNCHANGED <<tokenCalls, userSockets, now, connected, nextSocket>>
  ELSE LET callSession == [tokenCalls[callId] EXCEPT !.status = "accepted"]
           callerSocketId == UsersGet(userSockets, callSession.callerId)
       IN /\ tokenCalls' = CallsSet(tokenCalls, callId, callSession)
          /\ emitted' = IF callerSocketId # Undefined /\ userId # callSession.callerId
                        THEN <<Emit(callerSocketId, "call_accepted", callId)>>
                        ELSE <<>>
          /\ last' = Response("accept", callId, 200)
          /\ UNCHANGED <<userSockets, now, connected, nextSocket>>

TokenAccept ==
  \E callId \in TokenCallIds, userId \in UserIds : TokenAcceptReq(callId, userId)

\* app.post("/api/calls/:callId/reject") with body {userId}
TokenRejectReq(callId, userId) ==
  IF callId \notin DOMAIN tokenCalls
  THEN /\ last' = Response("reject", callId, 404)
       /\ emitted' = <<>>
       /\ UNCHANGED <<tokenCalls, userSockets, now, connected, nextSocket>>
  ELSE LET callerSocketId == UsersGet(userSockets, tokenCalls[callId].callerId)
       IN /\ tokenCalls' = CallsDelete(tokenCalls, callId)
          /\ emitted' = IF callerSocketId # Undefined
                        THEN <<Emit(callerSocketId, "call_rejected", callId)>>
                        ELSE <<>>
          /\ last' = Response("reject", callId, 200)
          /\ UNCHANGED <<userSockets, now, connected, nextSocket>>

TokenReject ==
  \E callId \in TokenCallIds, userId \in UserIds : TokenRejectReq(callId, userId)

\* app.post("/api/calls/:callId/end") with body {userId}
TokenEndReq(callId, userId) ==
  IF callId \notin DOMAIN tokenCalls
  THEN /\ last' = Response("end", callId, 404)
       /\ emitted' = <<>>
       /\ UNCHANGED <<tokenCalls, userSockets, now, connected, nextSocket>>
  ELSE LET otherUserId == IF userId = tokenCalls[callId].callerId
                          THEN tokenCalls[callId].receiverId
                          ELSE tokenCalls[callId].callerId
           otherUserSocketId == UsersGet(userSockets, otherUserId)
       IN /\ tokenCalls' = CallsDelete(tokenCalls, callId)
          /\ emitted' = IF otherUserSocketId # Undefined
                        THEN <<Emit(otherUserSocketId, "call_ended", callId)>>
                        ELSE <<>>
          /\ last' = Response("end", callId, 200)
          /\ UNCHANGED <<userSockets, now, connected, nextSocket>>

TokenEnd ==
  \E callId \in TokenCallIds, userId \in UserIds : TokenEndReq(callId, userId)

TokenNext ==
  \/ Connect /\ UNCHANGED tokenVars
  \/ Tick /\ UNCHANGED simpleVars
  \/ TokenAuthenticate /\ UNCHANGED simpleVars
  \/ TokenStatusUpdate /\ UNCHANGED simpleVars
  \/ TokenDisconnect /\ UNCHANGED simpleVars
  \/ TokenInitiate /\ UNCHANGED simpleVars
  \/ TokenAccept /\ UNCHANGED simpleVars
  \/ TokenReject /\ UNCHANGED simpleVars
  \/ TokenEnd /\ UNCHANGED simpleVars

SpecToken == Init /\ [][TokenNext]_vars

TypeOK ==
  /\ \A i \in 1..Len(users) : users[i].userId \in UserIds /\ users[i].socketId \in SocketIds
  /\ DOMAIN activeCalls \subseteq CallIds
  /\ connected \subseteq SocketIds

----------------------------------------------------------------------------
(* Vocabulary of the properties *)

\* The presence map holds the entry userId -> c.
Registered(m, userId, c) ==
  \E i \in 1..Len(m) : m[i].userId = userId /\ m[i].socketId = c

\* userId has a presence entry that points to a live connection.
Live(userId) == \E c \in connected : Registered(users, userId, c)

Participants(call) == {call.callerId, call.receiverId}

\* The positions of the emits of es that carry event for call id to address `to`.
Emits(es, to, event, id) ==
  {i \in 1..Len(es) : es[i] = [to |-> to, event |-> event, callId |-> id]}

Closed == succeeded.reject \cup succeeded.end

----------------------------------------------------------------------------
\* C1: no participant id is the callerId or receiverId of two different
\* sessions held in activeCalls at the same time.
C1_OneSessionPerParticipant ==
  \A a, b \in DOMAIN activeCalls :
    a # b => Participants(activeCalls[a]) \cap Participants(activeCalls[b]) = {}

\* Two sessions are held at once, and an initiate has just been refused as busy.
C1_Witness ==
  /\ Cardinality(DOMAIN activeCalls) >= 2
  /\ last.op = "initiate"
  /\ last.status = 409

\* C2 (as claimed): an initiate that answers 400, 409 or 404 leaves activeCalls
\* exactly as it was before the request.
C2_FailedInitiateLeavesStore ==
  [][(last'.op = "initiate" /\ last'.status \in {400, 409, 404})
       => activeCalls' = activeCalls]_vars

\* C3 (as claimed): accept by the receiver on a session that is not ringing
\* answers 409, leaves the session unchanged and emits no call_accepted.
C3_AcceptOnlyFromRinging ==
  [][\A id \in CallIds :
       (/\ id \in DOMAIN activeCalls
        /\ activeCalls[id].status # "ringing"
        /\ AcceptReq(id, activeCalls[id].receiverId))
       => (/\ last'.status = 409
           /\ activeCalls' = activeCalls
           /\ emitted' = <<>>)]_vars

\* C4 (as claimed): no session id has both an accept and a reject that succeeded.
C4_AcceptRejectExclusive == succeeded.accept \cap succeeded.reject = {}

\* C5 (as claimed): over the life of a session, at most one call_rejected or
\* call_ended is emitted to the caller's connection for it.
C5_OneTerminalNotification == \A id \in CallIds : terminalSeen[id] <= 1

\* C6: once a reject or an end of session id has succeeded, every later reject,
\* end or accept naming id answers 404, emits nothing and leaves users and
\* activeCalls unchanged.
C6_ClosedSessionStaysClosed ==
  [][\A id \in Closed :
       (last'.op \in {"reject", "end", "accept"} /\ last'.callId = id)
       => (/\ last'.status = 404
           /\ emitted' = <<>>
           /\ users' = users
           /\ activeCalls' = activeCalls)]_vars

\* A request naming a session that a reject or an end had closed was answered 404.
C6_Witness ==
  /\ last.op \in {"reject", "end", "accept"}
  /\ last.callId \in Closed
  /\ last.status = 404

\* C7 (as claimed): when the connection registered for P disconnects while P
\* holds a session with Q, and Q has a live registered connection, exactly one
\* call_ended for the session is emitted to Q's connection handle.
C7_CascadeNotifiesPeerConnection ==
  [][\A c \in SocketIds, id \in CallIds, P \in UserIds, Q \in UserIds, q \in SocketIds :
       (/\ DisconnectOf(c)
        /\ Registered(users, P, c)
        /\ id \in DOMAIN activeCalls
        /\ Participants(activeCalls[id]) = {P, Q}
        /\ P # Q
        /\ Registered(users, Q, q)
        /\ q \in connected \ {c})
       => Cardinality(Emits(emitted', q, "call_ended", id)) = 1]_vars

\* C8 (as claimed): after the disconnect of the connection registered for P,
\* activeCalls holds no session that references P, and every session that does
\* not reference P is still present and unchanged.
C8_DisconnectRemovesExactlyOwnSessions ==
  [][\A c \in SocketIds, P \in UserIds :
       (DisconnectOf(c) /\ Registered(users, P, c))
       => (/\ \A id \in DOMAIN activeCalls' : ~References(activeCalls'[id], P)
           /\ \A id \in DOMAIN activeCalls :
                ~References(activeCalls[id], P)
                => (id \in DOMAIN activeCalls' /\ activeCalls'[id] = activeCalls[id]))]_vars

\* C9 (as claimed): after P authenticated on C1 and then on C2, the disconnect of
\* the stale C1 keeps P's presence entry (still C2) and removes no session P
\* holds; an authenticate removes or changes no session either.
C9_StaleDisconnectTouchesNothing ==
  [][/\ \A c \in SocketIds, P \in UserIds, c2 \in SocketIds :
          (/\ <<P, c>> \in replaced
           /\ Registered(users, P, c2)
           /\ DisconnectOf(c))
          => (/\ Registered(users', P, c2)
              /\ \A id \in DOMAIN activeCalls :
                   References(activeCalls[id], P)
                   => (id \in DOMAIN activeCalls' /\ activeCalls'[id] = activeCalls[id]))
     /\ last'.op = "authenticate" => activeCalls' = activeCalls]_vars

\* C9 (amended): the disconnect of the stale C1 keeps P's presence entry (still
\* C2) and keeps every session P holds whose two participants are both not
\* registered on C1; an authenticate removes or changes no session.
C9_StaleDisconnectKeepsPresence ==
  [][/\ \A c \in SocketIds, P \in UserIds, c2 \in SocketIds :
          (/\ <<P, c>> \in replaced
           /\ Registered(users, P, c2)
           /\ DisconnectOf(c))
          => (/\ Registered(users', P, c2)
              /\ \A id \in DOMAIN activeCalls :
                   (/\ References(activeCalls[id], P)
                    /\ \A u \in Participants(activeCalls[id]) : ~Registered(users, u, c))
                   => (id \in DOMAIN activeCalls' /\ activeCalls'[id] = activeCalls[id]))
     /\ last'.op = "authenticate" => activeCalls' = activeCalls]_vars

\* A stale connection of P has disconnected while P, registered on a live
\* connection, holds a session.
C9_Witness ==
  /\ last.op = "disconnect"
  /\ \E P \in last.stale :
       /\ Live(P)
       /\ \E id \in DOMAIN activeCalls : References(activeCalls[id], P)

\* C10: for distinct idle A and B with live registered connections, initiate(A,B)
\* stores a ringing session and emits incoming_call to B's connection; accept by
\* B sets it accepted and emits call_accepted to A's connection; end by A emits
\* call_ended to A's and to B's connection and removes the session; an accept
\* naming a session that was ended answers 404.
C10_CallScenario ==
  [][\A A \in UserIds, B \in UserIds, a \in connected, b \in connected :
       (/\ last'.op \in {"initiate", "accept", "end"}
        /\ A # B
        /\ Registered(users, A, a)
        /\ Registered(users, B, b))
       => /\ (/\ ~IsBusy(activeCalls, A)
              /\ ~IsBusy(activeCalls, B)
              /\ InitiateReq(A, B))
             => (/\ last'.status = 200
                 /\ last'.callId \notin DOMAIN activeCalls
                 /\ last'.callId \in DOMAIN activeCalls'
                 /\ activeCalls'[last'.callId].callerId = A
                 /\ activeCalls'[last'.callId].receiverId = B
                 /\ activeCalls'[last'.callId].status = "ringing"
                 /\ emitted' = <<[to |-> b, event |-> "incoming_call",
                                  callId |-> last'.callId]>>)
          /\ \A id \in DOMAIN activeCalls :
               (activeCalls[id].callerId = A /\ activeCalls[id].receiverId = B)
               => /\ (activeCalls[id].status = "ringing" /\ AcceptReq(id, B))
                     => (/\ last'.status = 200
                         /\ activeCalls'[id].status = "accepted"
                         /\ emitted' = <<[to |-> a, event |-> "call_accepted",
                                          callId |-> id]>>)
                  /\ (activeCalls[id].status = "accepted" /\ EndReq(id, A))
                     => (/\ last'.status = 200
                         /\ id \notin DOMAIN activeCalls'
                         /\ emitted' = <<[to |-> a, event |-> "call_ended", callId |-> id],
                                         [to |-> b, event |-> "call_ended", callId |-> id]>>)
     /\ \A id \in succeeded.end :
          (last'.op = "accept" /\ last'.callId = id) => last'.status = 404]_vars

\* An accept has been answered 404 on a session that was accepted and then ended
\* with the caller's connection notified.
C10_Witness ==
  /\ last.op = "accept"
  /\ last.status = 404
  /\ last.callId \in succeeded.accept \cap succeeded.end
  /\ terminalSeen[last.callId] = 1

\* userId is neither caller nor receiver of a session in calls.
Idle(calls, userId) == \A id \in DOMAIN calls : userId \notin Participants(calls[id])

HasEntry(m, userId) == \E c \in SocketIds : Registered(m, userId, c)

C12_OnlyReceiverAcceptsOrRejects ==
  [][\A id \in CallIds, u \in UserIds \cup {Undefined} :
       (last'.op \in {"accept", "reject"} /\ (AcceptReq(id, u) \/ RejectReq(id, u)))
       => /\ (id \in DOMAIN activeCalls /\ activeCalls[id].receiverId # u)
             => (/\ last'.status = 403
                 /\ activeCalls' = activeCalls
                 /\ emitted' = <<>>)
          /\ id \notin DOMAIN activeCalls
             => (/\ last'.status = 404
                 /\ activeCalls' = activeCalls
                 /\ emitted' = <<>>)]_vars

\* An accept or reject naming a stored session has been refused with 403.
C12_Witness ==
  /\ last.op \in {"accept", "reject"}
  /\ last.status = 403
  /\ last.callId \in DOMAIN activeCalls

\* C13 (as claimed): an end request naming an existing session and a userId that
\* is neither its caller nor its receiver removes nothing and emits no call_ended.
C13_EndOnlyByParticipant ==
  [][\A id \in CallIds, u \in UserIds \cup {Undefined} :
       (/\ id \in DOMAIN activeCalls
        /\ u \notin Participants(activeCalls[id])
        /\ EndReq(id, u))
       => (activeCalls' = activeCalls /\ emitted' = <<>>)]_vars

\* C14: every record in activeCalls has status ringing or accepted.
C14_NoTerminalRecordRetained ==
  \A id \in DOMAIN activeCalls : activeCalls[id].status \in {"ringing", "accepted"}

\* A reject or an end has just succeeded, its record is gone, another is held.
C14_Witness ==
  /\ last.op \in {"reject", "end"}
  /\ last.status = 200
  /\ last.callId \notin DOMAIN activeCalls
  /\ activeCalls # <<>>

\* C15: an audio_data event for a stored session whose declared senderId is one
\* of its participants is emitted exactly once, to the connection registered for
\* the other participant, or not at all when that participant has no presence
\* entry; for an absent session nothing is emitted; no state changes.
C15_AudioGoesToOtherParticipant ==
  [][\A c \in SocketIds, id \in CallIds, S \in UserIds, O \in UserIds :
       (last'.op = "audio_data" /\ AudioDataOn(c, id, S))
       => /\ (id \in DOMAIN activeCalls /\ Participants(activeCalls[id]) = {S, O})
             => /\ \A r \in SocketIds :
                     Registered(users, O, r)
                     => emitted' = <<[to |-> r, event |-> "audio_data", callId |-> id]>>
                /\ ~HasEntry(users, O) => emitted' = <<>>
          /\ id \notin DOMAIN activeCalls => emitted' = <<>>
          /\ users' = users
          /\ activeCalls' = activeCalls]_vars

\* A chunk declared by the caller of a session between two participants on
\* different connections has been emitted to the receiver's connection.
C15_Witness ==
  /\ last.op = "audio_data"
  /\ last.callId \in DOMAIN activeCalls
  /\ LET call == activeCalls[last.callId] IN
     /\ call.callerId # call.receiverId
     /\ \E a \in SocketIds, b \in SocketIds :
          /\ a # b
          /\ Registered(users, call.callerId, a)
          /\ Registered(users, call.receiverId, b)
          /\ emitted = <<[to |-> b, event |-> "audio_data", callId |-> last.callId]>>

\* C19 (as claimed): an audio_data event whose declared senderId is not a
\* participant of the named session, or that arrives on a connection other than
\* the one registered for the declared sender, is relayed to nobody.
C19_AudioOnlyFromParticipant ==
  [][\A c \in SocketIds, id \in CallIds, S \in UserIds \cup {Undefined} :
       (/\ AudioDataOn(c, id, S)
        /\ id \in DOMAIN activeCalls
        /\ \/ S \notin Participants(activeCalls[id])
           \/ ~Registered(users, S, c))
       => emitted' = <<>>]_vars

\* C20 (as claimed): no session in activeCalls has callerId equal to receiverId.
C20_TwoDistinctParticipants ==
  \A id \in DOMAIN activeCalls : activeCalls[id].callerId # activeCalls[id].receiverId

\* C16 (as claimed): in the token-issuing server no participant id is the
\* callerId or receiverId of two sessions held in its activeCalls at once.
C16_TokenOneSessionPerParticipant ==
  \A a, b \in DOMAIN tokenCalls :
    a # b => Participants(tokenCalls[a]) \cap Participants(tokenCalls[b]) = {}

\* C17 (as claimed): in the token-issuing server every initiate stores its
\* session under an id and a channel name that no live session holds, overwrites
\* no record, and makes the store grow by exactly one.
C17_TokenInitiateUsesFreshId ==
  [][\A callerId \in UserIds, receiverId \in UserIds, orderTrackingId \in OrderIds :
       (last'.op = "initiate" /\ TokenInitiateReq(callerId, receiverId, orderTrackingId))
       => (/\ TokenCallId(now) \notin DOMAIN tokenCalls
           /\ \A k \in DOMAIN tokenCalls :
                tokenCalls[k].channelName # ChannelName(orderTrackingId, now)
           /\ \A k \in DOMAIN tokenCalls : tokenCalls'[k] = tokenCalls[k]
           /\ Cardinality(DOMAIN tokenCalls') = Cardinality(DOMAIN tokenCalls) + 1)]_vars

\* C18 (as claimed): in both servers, once the disconnect of connection c has
\* been processed, no presence entry maps a participant id to c.
C18_DisconnectClearsConnection ==
  [][\A c \in SocketIds :
       /\ DisconnectOf(c) => \A i \in 1..Len(users') : users'[i].socketId # c
       /\ TokenDisconnectOf(c)
          => \A i \in 1..Len(userSockets') : userSockets'[i].socketId # c]_vars

====
